---- MODULE Spec2Model ----
(***************************************************************************)
(* Model of src/react_assignment.tsx.                                      *)
(*                                                                         *)
(* SeatQueue (lines 127-166) is a singly linked list of ListNode objects   *)
(* with a head pointer, a tail pointer and a size counter.  The ListNode   *)
(* objects live in a heap, modelled by the sequence `nodes`: the address   *)
(* of an object is its index in that sequence.  A reference is the         *)
(* one-element sequence <<address>>, the value null is the empty sequence, *)
(* and a value of type `string | null` is <<s>> or null, so that no string *)
(* (not even "" or "null") can be mistaken for null.                       *)
(*                                                                         *)
(* The variable `trace` is a history variable: the calls made so far on    *)
(* the queue, each with its argument, its return value and whether it      *)
(* threw.  The program does not read it.                                   *)
(***************************************************************************)
EXTENDS Integers, Sequences, FiniteSets, TLC

VARIABLES head, tail, size, nodes, trace

queueVars == <<head, tail, size, nodes, trace>>

\* useTicketFilter (lines 235-252): the tickets argument of the last render,
\* the two useState cells, the dependency list useMemo remembered and the
\* filteredTickets the last render returned.
VARIABLES tickets, minPrice, maxPrice, memoDeps, filteredTickets

filterVars == <<tickets, minPrice, maxPrice, memoDeps, filteredTickets>>

\* TicketPrice (lines 93-108): whether the component is mounted, its props,
\* its useState cell, the interval identifier its effect closure holds, the
\* host's table of active intervals and the host's next identifier.  The
\* counters mounts and ticks are history variables.
VARIABLES mounted, basePrice, demandFactor, currentDF, priceUpdateInterval,
          intervals, nextInterval, mounts, ticks

priceVars == <<mounted, basePrice, demandFactor, currentDF,
               priceUpdateInterval, intervals, nextInterval, mounts, ticks>>

\* useFetch (lines 28-49): the url argument of the last render, the three
\* useState cells, the requests axios has in flight and the number of the
\* next request.  settled is a history variable: the requests whose
\* promise has settled, in the order they settled, and how.
VARIABLES url, data, loading, error, inflight, nextRequest, settled

fetchVars == <<url, data, loading, error, inflight, nextRequest, settled>>

vars == <<queueVars, filterVars, priceVars, fetchVars>>

\* Number of calls made on one SeatQueue in a behaviour.
MaxOps == 6

\* Seat identifiers the callers pass to addSeat: ordinary ones, the empty
\* string (falsy in JavaScript) and a string that reads like a sentinel.
SeatIds == {"A1", "A2", "", "null"}

null == <<>>

\* The SeatQueue object: its three private fields and the heap they point into.
Q == [head |-> head, tail |-> tail, size |-> size, nodes |-> nodes]

----------------------------------------------------------------------------
\* class ListNode: the constructor stores seatId, the field initialiser sets
\* next to null.  Allocation puts the object at a fresh address.
NewListNode(heap, seatId) == Append(heap, [seatId |-> seatId, next |-> null])

\* `!x` for x of type ListNode | null: an object is truthy, null is falsy.
Not(ref) == ref = null

\* `!s` for a string s: only the empty string is falsy.
NotStr(s) == s = ""

\* Whether a record reachable from ref holds seatId.
RECURSIVE Holds(_, _, _, _)
Holds(heap, ref, seatId, fuel) ==
  IF ref = null \/ fuel = 0 THEN FALSE
  ELSE IF heap[ref[1]].seatId = seatId THEN TRUE
  ELSE Holds(heap, heap[ref[1]].next, seatId, fuel - 1)

\* addSeat that skips an identifier that is already queued.
addSeat_dedup(q, seatId) ==
  LET heap1   == NewListNode(q.nodes, seatId)
      newNode == <<Len(heap1)>>
  IN  IF Holds(q.nodes, q.head, seatId, Len(q.nodes))
      THEN [q |-> q, ret |-> null, threw |-> FALSE]
      ELSE IF Not(q.head)
      THEN [q |-> [head |-> newNode, tail |-> newNode,
                   size |-> q.size + 1, nodes |-> heap1],
            ret |-> null, threw |-> FALSE]
      ELSE [q |-> [head |-> q.head, tail |-> newNode, size |-> q.size + 1,
                   nodes |-> [heap1 EXCEPT ![q.tail[1]].next = newNode]],
            ret |-> null, threw |-> FALSE]

\* addSeat that forgets `this.tail!.next = newNode`.
addSeat_nolink(q, seatId) ==
  LET heap1   == NewListNode(q.nodes, seatId)
      newNode == <<Len(heap1)>>
  IN  IF Not(q.head)
      THEN [q |-> [head |-> newNode, tail |-> newNode,
                   size |-> q.size + 1, nodes |-> heap1],
            ret |-> null, threw |-> FALSE]
      ELSE [q |-> [head |-> q.head, tail |-> newNode, size |-> q.size + 1,
                   nodes |-> heap1],
            ret |-> null, threw |-> FALSE]

\* addSeat with the two statements of the else branch swapped:
\* `this.tail = newNode; this.tail.next = newNode`.
addSeat_swapped(q, seatId) ==
  LET heap1   == NewListNode(q.nodes, seatId)
      newNode == <<Len(heap1)>>
  IN  IF Not(q.head)
      THEN [q |-> [head |-> newNode, tail |-> newNode,
                   size |-> q.size + 1, nodes |-> heap1],
            ret |-> null, threw |-> FALSE]
      ELSE [q |-> [head |-> q.head, tail |-> newNode, size |-> q.size + 1,
                   nodes |-> [heap1 EXCEPT ![newNode[1]].next = newNode]],
            ret |-> null, threw |-> FALSE]

\* addSeat that links the new record in front of head (a stack push):
\* `newNode.next = this.head; this.head = newNode`.
addSeat_push(q, seatId) ==
  LET heap1   == NewListNode(q.nodes, seatId)
      newNode == <<Len(heap1)>>
  IN  IF Not(q.head)
      THEN [q |-> [head |-> newNode, tail |-> newNode,
                   size |-> q.size + 1, nodes |-> heap1],
            ret |-> null, threw |-> FALSE]
      ELSE [q |-> [head |-> newNode, tail |-> q.tail, size |-> q.size + 1,
                   nodes |-> [heap1 EXCEPT ![newNode[1]].next = q.head]],
            ret |-> null, threw |-> FALSE]

\* addSeat whose empty branch forgets `this.tail = newNode`.
addSeat_notail(q, seatId) ==
  LET heap1   == NewListNode(q.nodes, seatId)
      newNode == <<Len(heap1)>>
  IN  IF Not(q.head)
      THEN [q |-> [head |-> newNode, tail |-> q.tail,
                   size |-> q.size + 1, nodes |-> heap1],
            ret |-> null, threw |-> FALSE]
      ELSE IF q.tail = null
      THEN [q |-> [q EXCEPT !.nodes = heap1], ret |-> null, threw |-> TRUE]
      ELSE [q |-> [head |-> q.head, tail |-> newNode, size |-> q.size + 1,
                   nodes |-> [heap1 EXCEPT ![q.tail[1]].next = newNode]],
            ret |-> null, threw |-> FALSE]

\* SeatQueue.addSeat.  `this.tail!.next = newNode` dereferences tail: on a
\* null tail it throws a TypeError before anything is assigned.
addSeat(q, seatId) ==
  LET heap1   == NewListNode(q.nodes, seatId)
      newNode == <<Len(heap1)>>
  IN  IF Not(q.head)
      THEN [q |-> [head |-> newNode, tail |-> newNode,
                   size |-> q.size + 1, nodes |-> heap1],
            ret |-> null, threw |-> FALSE]
      ELSE IF q.tail = null
      THEN [q |-> [q EXCEPT !.nodes = heap1], ret |-> null, threw |-> TRUE]
      ELSE [q |-> [head |-> q.head, tail |-> newNode, size |-> q.size + 1,
                   nodes |-> [heap1 EXCEPT ![q.tail[1]].next = newNode]],
            ret |-> null, threw |-> FALSE]

\* reserveSeat that takes the most recently added seat (returns tail's
\* identifier) while still unlinking the head.
reserveSeat_lifo(q) ==
  IF Not(q.head) THEN [q |-> q, ret |-> null, threw |-> FALSE]
  ELSE LET seatId == q.nodes[q.tail[1]].seatId
           head1  == q.nodes[q.head[1]].next
           tail1  == IF Not(head1) THEN null ELSE q.tail
       IN  [q |-> [head |-> head1, tail |-> tail1, size |-> q.size - 1,
                   nodes |-> q.nodes],
            ret |-> <<seatId>>, threw |-> FALSE]

\* reserveSeat that decrements size before the emptiness test.
reserveSeat_decfirst(q) ==
  IF Not(q.head)
  THEN [q |-> [q EXCEPT !.size = q.size - 1], ret |-> null, threw |-> FALSE]
  ELSE LET seatId == q.nodes[q.head[1]].seatId
           head1  == q.nodes[q.head[1]].next
           tail1  == IF Not(head1) THEN null ELSE q.tail
       IN  [q |-> [head |-> head1, tail |-> tail1, size |-> q.size - 1,
                   nodes |-> q.nodes],
            ret |-> <<seatId>>, threw |-> FALSE]

\* reserveSeat without `if (!this.head) this.tail = null`.
reserveSeat_keeptail(q) ==
  IF Not(q.head) THEN [q |-> q, ret |-> null, threw |-> FALSE]
  ELSE LET seatId == q.nodes[q.head[1]].seatId
           head1  == q.nodes[q.head[1]].next
       IN  [q |-> [head |-> head1, tail |-> q.tail, size |-> q.size - 1,
                   nodes |-> q.nodes],
            ret |-> <<seatId>>, threw |-> FALSE]

\* reserveSeat ending in `return seatId || null`.
reserveSeat_ornull(q) ==
  IF Not(q.head) THEN [q |-> q, ret |-> null, threw |-> FALSE]
  ELSE LET seatId == q.nodes[q.head[1]].seatId
           head1  == q.nodes[q.head[1]].next
           tail1  == IF Not(head1) THEN null ELSE q.tail
       IN  [q |-> [head |-> head1, tail |-> tail1, size |-> q.size - 1,
                   nodes |-> q.nodes],
            ret |-> IF NotStr(seatId) THEN null ELSE <<seatId>>,
            threw |-> FALSE]

\* reserveSeat that reads the head without `this.head = this.head.next`
\* (a peek that still counts down).
reserveSeat_peek(q) ==
  IF Not(q.head) THEN [q |-> q, ret |-> null, threw |-> FALSE]
  ELSE LET seatId == q.nodes[q.head[1]].seatId
       IN  [q |-> [head |-> q.head, tail |-> q.tail, size |-> q.size - 1,
                   nodes |-> q.nodes],
            ret |-> <<seatId>>, threw |-> FALSE]

\* reserveSeat that returns from inside the last-record test, before
\* `this.size--`: `if (!this.head) { this.tail = null; return seatId }`.
reserveSeat_earlyreturn(q) ==
  IF Not(q.head) THEN [q |-> q, ret |-> null, threw |-> FALSE]
  ELSE LET seatId == q.nodes[q.head[1]].seatId
           head1  == q.nodes[q.head[1]].next
       IN  IF Not(head1)
           THEN [q |-> [head |-> head1, tail |-> null, size |-> q.size,
                        nodes |-> q.nodes],
                 ret |-> <<seatId>>, threw |-> FALSE]
           ELSE [q |-> [head |-> head1, tail |-> q.tail, size |-> q.size - 1,
                        nodes |-> q.nodes],
                 ret |-> <<seatId>>, threw |-> FALSE]

\* SeatQueue.reserveSeat.  this.head is not null where it is dereferenced,
\* so the method has no throwing path.
reserveSeat(q) ==
  IF Not(q.head) THEN [q |-> q, ret |-> null, threw |-> FALSE]
  ELSE LET seatId == q.nodes[q.head[1]].seatId
           head1  == q.nodes[q.head[1]].next
           tail1  == IF Not(head1) THEN null ELSE q.tail
       IN  [q |-> [head |-> head1, tail |-> tail1, size |-> q.size - 1,
                   nodes |-> q.nodes],
            ret |-> <<seatId>>, threw |-> FALSE]

\* getAvailableCount that is off by one: `return this.size - 1`.
getAvailableCount_offbyone(q) ==
  [q |-> q, ret |-> <<q.size - 1>>, threw |-> FALSE]

\* getAvailableCount that counts by consuming the chain:
\* `let n = 0; while (this.head) { n++; this.head = this.head.next } return n`.
RECURSIVE CountFrom(_, _, _)
CountFrom(heap, ref, fuel) ==
  IF ref = null \/ fuel = 0 THEN 0
  ELSE 1 + CountFrom(heap, heap[ref[1]].next, fuel - 1)

getAvailableCount_walk(q) ==
  [q |-> [q EXCEPT !.head = null],
   ret |-> <<CountFrom(q.nodes, q.head, Len(q.nodes))>>, threw |-> FALSE]

\* SeatQueue.getAvailableCount.
getAvailableCount(q) == [q |-> q, ret |-> <<q.size>>, threw |-> FALSE]

----------------------------------------------------------------------------
\* JavaScript numbers as far as the price filter meets them: finite
\* values, Infinity and NaN.
Num(n) == [k |-> "num", v |-> n]
Infinity == [k |-> "inf", v |-> 0]
NaN == [k |-> "nan", v |-> 0]

\* a <= b on numbers: false when either side is NaN.
Leq(a, b) ==
  /\ a.k # "nan"
  /\ b.k # "nan"
  /\ \/ b.k = "inf"
     \/ a.k = "num" /\ b.k = "num" /\ a.v <= b.v

\* a >= b is b <= a for numbers.
Geq(a, b) == Leq(b, a)

\* Object.is, by which useState and useMemo compare: NaN equals NaN.
ObjectIs(a, b) == a = b

\* Longest tickets array passed to the hook.
MaxTickets == 3

\* The tickets a caller may pass; two of them share a price.
TicketPool ==
  { [id |-> "1", price |-> Num(10)], [id |-> "2", price |-> Num(30)],
    [id |-> "3", price |-> Num(50)], [id |-> "4", price |-> Num(30)] }

TicketArrays == UNION { [1..n -> TicketPool] : n \in 0..MaxTickets }

\* The values a caller may hand to setMinPrice and setMaxPrice.
PriceInputs == {Num(0), Num(10), Num(20), Num(30), Num(50), Infinity, NaN}

\* Array.prototype.filter with the predicate of line 241.
RECURSIVE Filter(_, _, _)
Filter(arr, mn, mx) ==
  IF arr = <<>> THEN <<>>
  ELSE LET ticket == Head(arr)
           rest   == Filter(Tail(arr), mn, mx)
       IN  IF Geq(ticket.price, mn) /\ Leq(ticket.price, mx)
           THEN <<ticket>> \o rest
           ELSE rest

\* One call of the hook with the dependency list [tickets, minPrice]:
\* maxPrice is read but not listed.
useTicketFilter_nomaxdep(tk, fresh, mn, mx, deps, value) ==
  LET changed == fresh \/ ~ObjectIs(deps[1], mn)
  IN  [memoDeps |-> <<mn, mx>>,
       filteredTickets |-> IF changed THEN Filter(tk, mn, mx) ELSE value]

\* One call of the hook (one render).  useMemo recomputes when a dependency
\* differs from the remembered one by Object.is: the tickets array is
\* compared by reference (fresh: the caller passed another array object),
\* minPrice and maxPrice by value.
useTicketFilter(tk, fresh, mn, mx, deps, value) ==
  LET changed == fresh \/ ~ObjectIs(deps[1], mn) \/ ~ObjectIs(deps[2], mx)
  IN  [memoDeps |-> <<mn, mx>>,
       filteredTickets |-> IF changed THEN Filter(tk, mn, mx) ELSE value]

\* The first render: minPrice is 0, maxPrice is Infinity, useMemo computes.
FilterMount(tk) ==
  /\ tickets = tk
  /\ minPrice = Num(0)
  /\ maxPrice = Infinity
  /\ memoDeps = <<Num(0), Infinity>>
  /\ filteredTickets = Filter(tk, Num(0), Infinity)

FilterInit == \E tk \in TicketArrays : FilterMount(tk)

\* The render that follows a state change or a new tickets argument.
FilterRender(tk, fresh, mn, mx) ==
  LET r == useTicketFilter(tk, fresh, mn, mx, memoDeps, filteredTickets)
  IN  /\ tickets' = tk
      /\ minPrice' = mn
      /\ maxPrice' = mx
      /\ memoDeps' = r.memoDeps
      /\ filteredTickets' = r.filteredTickets

\* setMinPrice(v): React bails out when v is the current value, otherwise
\* stores it and renders again.
SetMinPrice ==
  /\ \E v \in PriceInputs :
       /\ ~ObjectIs(v, minPrice)
       /\ FilterRender(tickets, FALSE, v, maxPrice)
  /\ UNCHANGED <<queueVars, priceVars, fetchVars>>

\* setMaxPrice(v), likewise.
SetMaxPrice ==
  /\ \E v \in PriceInputs :
       /\ ~ObjectIs(v, maxPrice)
       /\ FilterRender(tickets, FALSE, minPrice, v)
  /\ UNCHANGED <<queueVars, priceVars, fetchVars>>

\* The caller renders again and passes another array object, as
\* TicketFilterExample does on each of its renders (line 256).
NewTickets ==
  /\ \E tk \in TicketArrays : FilterRender(tk, TRUE, minPrice, maxPrice)
  /\ UNCHANGED <<queueVars, priceVars, fetchVars>>

----------------------------------------------------------------------------
\* Mounts of TicketPrice and timer ticks in a behaviour.
MaxMounts == 3
MaxTicks == 3

\* Demand factors in hundredths (0.20 is 20): the demandFactor prop and the
\* values Math.random() yields, which lie in [0, 1).
DemandFactors == {0, 20, 50, 99}

BasePrices == {50, 80}

\* The price shown, in cents: basePrice * (1 + currentDF).
finalPrice == basePrice * (100 + currentDF)

\* An effect without the returned cleanup: nothing is cleared at unmount.
clearInterval_missing(active, id) == active

\* clearInterval(id), the cleanup the effect returns (line 102).
clearInterval(active, id) == active \ {id}

\* setInterval(callback, 5000) (line 97): the host registers an interval
\* under a fresh identifier.
setInterval(active, id) == active \cup {id}

PriceUnmounted ==
  /\ mounted = FALSE
  /\ basePrice = 50
  /\ demandFactor = 20
  /\ currentDF = 20
  /\ priceUpdateInterval = 0
  /\ intervals = {}
  /\ nextInterval = 1
  /\ mounts = 0
  /\ ticks = 0

\* Mount: the first render initialises currentDF from the demandFactor prop
\* (line 94), then the effect runs once (dependency list []) and starts the
\* interval.
Mount ==
  /\ ~mounted
  /\ mounts < MaxMounts
  /\ \E b \in BasePrices, d \in DemandFactors :
       /\ basePrice' = b
       /\ demandFactor' = d
       /\ currentDF' = d
  /\ mounted' = TRUE
  /\ priceUpdateInterval' = nextInterval
  /\ intervals' = setInterval(intervals, nextInterval)
  /\ nextInterval' = nextInterval + 1
  /\ mounts' = mounts + 1
  /\ UNCHANGED <<ticks, queueVars, filterVars, fetchVars>>

\* The parent renders TicketPrice again with other props.  The dependency
\* list is [], so the effect does not run again; useState keeps currentDF.
NewProps ==
  /\ mounted
  /\ \E b \in BasePrices, d \in DemandFactors :
       /\ <<b, d>> # <<basePrice, demandFactor>>
       /\ basePrice' = b
       /\ demandFactor' = d
  /\ UNCHANGED <<mounted, currentDF, priceUpdateInterval, intervals,
                 nextInterval, mounts, ticks, queueVars, filterVars, fetchVars>>

\* The host fires an active interval: the callback of lines 97-100 stores a
\* new random demand factor.
Tick ==
  /\ ticks < MaxTicks
  /\ \E id \in intervals, updatedDemandFactor \in DemandFactors :
       currentDF' = updatedDemandFactor
  /\ ticks' = ticks + 1
  /\ UNCHANGED <<mounted, basePrice, demandFactor, priceUpdateInterval,
                 intervals, nextInterval, mounts, queueVars, filterVars, fetchVars>>

\* Unmount: React runs the cleanup the effect returned.
Unmount ==
  /\ mounted
  /\ mounted' = FALSE
  /\ intervals' = clearInterval(intervals, priceUpdateInterval)
  /\ UNCHANGED <<basePrice, demandFactor, currentDF, priceUpdateInterval,
                 nextInterval, mounts, ticks, queueVars, filterVars, fetchVars>>

----------------------------------------------------------------------------
\* Requests one useFetch issues in a behaviour.
MaxRequests == 3

\* The url of ExampleComponent (line 53) and two others a caller may pass.
ExampleUrl == "https://test.com/api/data"

Urls == {ExampleUrl, "/a", "/b"}

\* What a request for u resolves with (response.data) and rejects with.
Body(u) == [body |-> u]
Failure(u) == [failed |-> u]

\* fetchData with setLoading(false) as the last statement of the try block
\* instead of a finally block.
fetchData_nofinally(st, u, ok) ==
  IF ok
  THEN [data |-> <<Body(u)>>, error |-> st.error, loading |-> FALSE]
  ELSE [data |-> st.data, error |-> <<Failure(u)>>, loading |-> st.loading]

\* fetchData after `await axios.get(url)` (lines 36-42), for the request of
\* url u, on the state st = [data, error, loading]: setData on success,
\* setError on rejection, setLoading(false) in both cases.  Nothing checks
\* whether u is still the url of the hook.
fetchData(st, u, ok) ==
  IF ok
  THEN [data |-> <<Body(u)>>, error |-> st.error, loading |-> FALSE]
  ELSE [data |-> st.data, error |-> <<Failure(u)>>, loading |-> FALSE]

\* The first render and its effect: the initial useState values, and
\* fetchData() has called axios.get(u).
FetchMount(u) ==
  /\ url = u
  /\ data = null
  /\ loading = TRUE
  /\ error = null
  /\ inflight = {[id |-> 1, url |-> u]}
  /\ nextRequest = 2
  /\ settled = <<>>

\* The caller renders with another url: the effect (dependency list [url])
\* runs again and starts a request.  There is no cleanup and no state is
\* reset.
UrlChange ==
  /\ nextRequest <= MaxRequests
  /\ \E u \in Urls :
       /\ u # url
       /\ url' = u
       /\ inflight' = inflight \cup {[id |-> nextRequest, url |-> u]}
  /\ nextRequest' = nextRequest + 1
  /\ UNCHANGED <<data, loading, error, settled, queueVars, filterVars,
                 priceVars>>

\* A request in flight settles, resolved or rejected, and the rest of
\* fetchData runs.
Settle ==
  /\ \E r \in inflight, ok \in BOOLEAN :
       LET st == fetchData([data |-> data, error |-> error,
                            loading |-> loading], r.url, ok)
       IN  /\ data' = st.data
           /\ error' = st.error
           /\ loading' = st.loading
           /\ inflight' = inflight \ {r}
           /\ settled' = Append(settled,
                               [id |-> r.id, url |-> r.url, ok |-> ok])
  /\ UNCHANGED <<url, nextRequest, queueVars, filterVars, priceVars>>

----------------------------------------------------------------------------
\* A newly constructed SeatQueue: the field initialisers of lines 137-139.
\* The hooks of the file are mounted with nothing to show.
Init ==
  /\ head = null
  /\ tail = null
  /\ size = 0
  /\ nodes = <<>>
  /\ trace = <<>>
  /\ FilterMount(<<>>)
  /\ PriceUnmounted
  /\ FetchMount(ExampleUrl)

Commit(r, op, arg) ==
  /\ head' = r.q.head
  /\ tail' = r.q.tail
  /\ size' = r.q.size
  /\ nodes' = r.q.nodes
  /\ trace' = Append(trace, [op |-> op, arg |-> arg, ret |-> r.ret,
                             threw |-> r.threw])
  /\ UNCHANGED <<filterVars, priceVars, fetchVars>>

AddSeat ==
  /\ Len(trace) < MaxOps
  /\ \E seatId \in SeatIds : Commit(addSeat(Q, seatId), "addSeat", <<seatId>>)

ReserveSeat ==
  /\ Len(trace) < MaxOps
  /\ Commit(reserveSeat(Q), "reserveSeat", null)

GetAvailableCount ==
  /\ Len(trace) < MaxOps
  /\ Commit(getAvailableCount(Q), "getAvailableCount", null)

Next == AddSeat \/ ReserveSeat \/ GetAvailableCount

Spec == Init /\ [][Next]_vars

\* useTicketFilter alone: a SeatQueue nobody calls, the hook mounted with
\* any tickets array.
InitFilter ==
  /\ head = null
  /\ tail = null
  /\ size = 0
  /\ nodes = <<>>
  /\ trace = <<>>
  /\ FilterInit
  /\ PriceUnmounted
  /\ FetchMount(ExampleUrl)

NextFilter == SetMinPrice \/ SetMaxPrice \/ NewTickets

SpecFilter == InitFilter /\ [][NextFilter]_vars

\* TicketPrice alone, from before its first mount.
NextPrice == Mount \/ NewProps \/ Tick \/ Unmount

SpecPrice == Init /\ [][NextPrice]_vars

\* useFetch alone, mounted with any url.
InitFetch ==
  /\ head = null
  /\ tail = null
  /\ size = 0
  /\ nodes = <<>>
  /\ trace = <<>>
  /\ FilterMount(<<>>)
  /\ PriceUnmounted
  /\ \E u \in Urls : FetchMount(u)

NextFetch == UrlChange \/ Settle

SpecFetch == InitFetch /\ [][NextFetch]_vars

\* Every request eventually settles: a promise in flight is resolved or
\* rejected.
SpecFetchFair == SpecFetch /\ WF_vars(Settle)

----------------------------------------------------------------------------
\* What the history says: the identifiers added, in call order, and the
\* identifiers handed out by reserveSeat, in call order.
IsAdd(e) == e.op = "addSeat"
IsReserve(e) == e.op = "reserveSeat"
IsCount(e) == e.op = "getAvailableCount"
IsHandedOut(e) == e.op = "reserveSeat" /\ e.ret # null
NotCount(e) == e.op # "getAvailableCount"

Added(tr) ==
  LET a == SelectSeq(tr, IsAdd) IN [i \in 1..Len(a) |-> a[i].arg[1]]

Returned(tr) ==
  LET r == SelectSeq(tr, IsHandedOut) IN [i \in 1..Len(r) |-> r[i].ret[1]]

Before(i) == SubSeq(trace, 1, i - 1)

\* The step just taken (trace' is trace plus one call) and its kind.
Stepped(op) ==
  /\ Len(trace') = Len(trace) + 1
  /\ trace'[Len(trace')].op = op

LastCall == trace'[Len(trace')]

\* The records met when following next from ref, at most fuel of them.
RECURSIVE Chain(_, _, _)
Chain(heap, ref, fuel) ==
  IF ref = null \/ fuel = 0 THEN <<>>
  ELSE <<ref[1]>> \o Chain(heap, heap[ref[1]].next, fuel - 1)

ChainOfQ == Chain(nodes, head, Len(nodes) + 1)

Positions(seq, x) == {i \in 1..Len(seq) : seq[i] = x}

\* Running a list of calls on a queue, by the methods themselves.
Apply(call, q) ==
  CASE call.op = "addSeat" -> addSeat(q, call.arg[1])
    [] call.op = "reserveSeat" -> reserveSeat(q)
    [] OTHER -> getAvailableCount(q)

RECURSIVE Replay(_, _)
Replay(calls, q) ==
  IF calls = <<>> THEN q
  ELSE Replay(Tail(calls), Apply(Head(calls), q).q)

NewQ == [head |-> null, tail |-> null, size |-> 0, nodes |-> <<>>]

----------------------------------------------------------------------------
\* C1: in any interleaving of addSeat and reserveSeat, a reserveSeat made
\* while a seat is queued returns the identifier added earliest among those
\* added and not yet returned: no reordering, no skipping.
C1_FifoInterleaved ==
  \A i \in 1..Len(trace) :
    IsReserve(trace[i]) =>
      LET a == Added(Before(i))
          r == Returned(Before(i))
      IN  Len(a) > Len(r) => trace[i].ret = <<a[Len(r) + 1]>>

\* The interleaving scenario: add; reserve; add; add; reserve, and the
\* second reserve has returned the second identifier added.
C1_Witness ==
  /\ Len(trace) >= 5
  /\ IsAdd(trace[1]) /\ IsReserve(trace[2]) /\ IsAdd(trace[3])
  /\ IsAdd(trace[4]) /\ IsReserve(trace[5])
  /\ trace[3].arg # trace[4].arg
  /\ trace[5].ret = trace[3].arg

\* C2: n identifiers added to a new queue and then n consecutive
\* reserveSeat calls: the calls return the identifiers in the order added.
C2_FifoLaw ==
  \A n \in 1..Len(trace) :
    ( /\ Len(trace) >= 2 * n
      /\ \A i \in 1..n : IsAdd(trace[i])
      /\ \A i \in (n + 1)..(2 * n) : IsReserve(trace[i]) )
    => \A i \in 1..n : trace[n + i].ret = trace[i].arg

\* Three different identifiers added, then three reserves.
C2_Witness ==
  /\ Len(trace) = 6
  /\ \A i \in 1..3 : IsAdd(trace[i])
  /\ \A i \in 4..6 : IsReserve(trace[i]) /\ trace[i].ret # null
  /\ Cardinality({trace[1].arg, trace[2].arg, trace[3].arg}) = 3

\* C3: every getAvailableCount call returns the number of addSeat calls
\* made before it minus the number of reserveSeat calls before it that
\* returned an identifier, and that number is never negative; the size
\* field holds the same number for the calls made so far.
C3_CountIsAddsMinusReserves ==
  /\ size = Len(Added(trace)) - Len(Returned(trace))
  /\ size >= 0
  /\ \A i \in 1..Len(trace) :
       IsCount(trace[i]) =>
         /\ trace[i].ret = <<Len(Added(Before(i))) - Len(Returned(Before(i)))>>
         /\ trace[i].ret[1] >= 0

\* add; add; reserve; count returned 1; reserve; count returned 0.
C3_Witness ==
  /\ Len(trace) = 6
  /\ IsAdd(trace[1]) /\ IsAdd(trace[2]) /\ IsHandedOut(trace[3])
  /\ IsCount(trace[4]) /\ trace[4].ret = <<1>>
  /\ IsHandedOut(trace[5])
  /\ IsCount(trace[6]) /\ trace[6].ret = <<0>>

\* C4: when no seat is queued (every identifier added has been handed
\* out), a reserveSeat call returns null, does not throw, leaves head, tail,
\* size and the records unchanged, and the count stays 0.
C4_EmptyReserve ==
  [][ ( /\ Len(Added(trace)) = Len(Returned(trace))
        /\ Stepped("reserveSeat") )
      => /\ LastCall.ret = null
         /\ ~LastCall.threw
         /\ UNCHANGED <<head, tail, size, nodes>>
         /\ size' = 0
         /\ getAvailableCount(Q').ret = <<0>> ]_vars

\* A queue drained after an add, then reserved from three more times.
C4_Witness ==
  /\ Len(trace) >= 5
  /\ IsAdd(trace[1]) /\ IsHandedOut(trace[2])
  /\ \A i \in 3..5 : IsReserve(trace[i]) /\ trace[i].ret = null
  /\ size = 0 /\ head = null /\ tail = null

\* C5: size is 0 exactly when head is null, and when head is null tail is
\* null too.
C5_EmptyShape ==
  /\ (size = 0) <=> (head = null)
  /\ (head = null) => (tail = null)

\* A queue that held two seats and has been drained.
C5_Witness ==
  /\ Len(Added(trace)) >= 2
  /\ Len(Returned(trace)) = Len(Added(trace))
  /\ head = null

\* C6: following next from head meets exactly size records, no record
\* twice, and the last one met (after size - 1 steps) is tail.
C6_ChainShape ==
  LET c == ChainOfQ
  IN  /\ Len(c) = size
      /\ Cardinality({c[i] : i \in 1..Len(c)}) = Len(c)
      /\ size > 0 => tail # null /\ c[size] = tail[1]

\* Three seats queued after an earlier one was reserved.
C6_Witness ==
  /\ size = 3
  /\ Len(Returned(trace)) >= 1
  /\ Len(ChainOfQ) = 3

\* C7: when tail is not null, tail.next is null.
C7_TailIsLast == tail # null => nodes[tail[1]].next = null

\* tail is a record that was linked behind another one, and head has moved.
C7_Witness ==
  /\ tail # null /\ head # null /\ head # tail
  /\ Len(Returned(trace)) >= 1
  /\ nodes[head[1]].next # null

\* C8: reserveSeat returns null exactly when no record was queued at the
\* call; otherwise it returns the queued identifier itself, also when that
\* identifier is "" or "null".
C8_NullIffEmpty ==
  \A i \in 1..Len(trace) :
    IsReserve(trace[i]) =>
      LET a == Added(Before(i))
          r == Returned(Before(i))
      IN  /\ (trace[i].ret = null) <=> (Len(a) = Len(r))
          /\ trace[i].ret # null =>
               /\ Len(trace[i].ret) = 1
               /\ trace[i].ret[1] \in SeatIds
               /\ trace[i].ret[1] = a[Len(r) + 1]

\* "" and "null" were added and both came back as themselves, and a
\* reserve on the then empty queue returned null.
C8_Witness ==
  /\ Len(trace) >= 5
  /\ trace[1].op = "addSeat" /\ trace[1].arg = <<"">>
  /\ trace[2].op = "addSeat" /\ trace[2].arg = <<"null">>
  /\ IsReserve(trace[3]) /\ trace[3].ret = <<"">>
  /\ IsReserve(trace[4]) /\ trace[4].ret = <<"null">>
  /\ IsReserve(trace[5]) /\ trace[5].ret = null

\* C9: every addSeat raises size by one, whether or not the identifier is
\* already queued, and once the queue is drained each identifier has been
\* returned at exactly the positions at which it was added.
C9_DuplicatesKept ==
  [][ /\ Stepped("addSeat") => size' = size + 1
      /\ (Stepped("reserveSeat") /\ head' = null) =>
           \A id \in SeatIds :
             Positions(Returned(trace'), id) = Positions(Added(trace'), id)
    ]_vars

\* "A1" added twice with another identifier in between, all three queued
\* together, then the queue drained.
C9_Witness ==
  /\ Len(trace) = 6
  /\ \A i \in 1..3 : IsAdd(trace[i])
  /\ trace[1].arg = <<"A1">> /\ trace[2].arg = <<"A2">>
  /\ trace[3].arg = <<"A1">>
  /\ Returned(trace) = <<"A1", "A2", "A1">>
  /\ head = null

\* C10: a getAvailableCount call leaves head, tail, size and the records
\* as they were when it was made; hence the queue is in the state the other
\* calls alone lead to, and every call returned what it returns when the
\* getAvailableCount calls before it are left out.
C10_CountIsPure ==
  /\ Replay(SelectSeq(trace, NotCount), NewQ) = Q
  /\ \A i \in 1..Len(trace) :
       LET atCall == Replay(Before(i), NewQ)
           without == Replay(SelectSeq(Before(i), NotCount), NewQ)
       IN  /\ IsCount(trace[i]) => Replay(Before(i + 1), NewQ) = atCall
           /\ Apply(trace[i], without).ret = trace[i].ret

\* getAvailableCount was called between the adds and the reserves of a
\* queue that still holds a seat.
C10_Witness ==
  /\ Len(trace) = 6
  /\ IsAdd(trace[1]) /\ IsCount(trace[2]) /\ IsAdd(trace[3])
  /\ IsCount(trace[4]) /\ IsHandedOut(trace[5]) /\ IsCount(trace[6])
  /\ trace[6].ret = <<1>>

\* The addresses of the records the queue can reach: head, tail and the
\* records met by following next from head.
Reachable(q) ==
  LET c == Chain(q.nodes, q.head, Len(q.nodes) + 1)
  IN  {c[i] : i \in 1..Len(c)}
        \cup {q.head[i] : i \in 1..Len(q.head)}
        \cup {q.tail[i] : i \in 1..Len(q.tail)}

\* C11: after a reserveSeat that returns an identifier, the record that
\* held it (the head at the call) is not head, not tail and not met by
\* following next from head; and a record the queue cannot reach is never
\* reachable again.
C11_DetachedUnreachable ==
  [][ /\ (Stepped("reserveSeat") /\ LastCall.ret # null) =>
           /\ head # null
           /\ head[1] \notin Reachable(Q')
      /\ \A a \in 1..Len(nodes) :
           a \notin Reachable(Q) => a \notin Reachable(Q') ]_vars

\* Two seats were reserved from a queue of three; the two detached
\* records are out of reach and the third is still queued.
C11_Witness ==
  /\ Len(nodes) = 3 /\ Len(Returned(trace)) = 2
  /\ IsReserve(trace[Len(trace)])
  /\ Reachable(Q) = {3}

\* C15: addSeat never fails and raises size by exactly one.  On a
\* non-empty queue it leaves head and the records already queued, in their
\* order and with their identifiers, unchanged and puts the new record
\* last; on an empty queue the new record is head and tail and size is 1.
C15_AddSeatFrame ==
  [][ Stepped("addSeat") =>
        LET old == ChainOfQ
            new == ChainOfQ'
            rec == Len(nodes')
        IN  /\ ~LastCall.threw
            /\ size' = size + 1
            /\ Len(nodes') = Len(nodes) + 1
            /\ nodes'[rec].seatId = LastCall.arg[1]
            /\ tail' = <<rec>>
            /\ new = old \o <<rec>>
            /\ \A i \in 1..Len(old) :
                 nodes'[old[i]].seatId = nodes[old[i]].seatId
            /\ IF head = null
               THEN head' = <<rec>> /\ size' = 1
               ELSE head' = head ]_vars

\* An add on the empty queue, a second add behind it, a reserve and an
\* add on the queue emptied and refilled.
C15_Witness ==
  /\ Len(trace) = 6
  /\ IsAdd(trace[1]) /\ IsAdd(trace[2])
  /\ IsHandedOut(trace[3]) /\ IsHandedOut(trace[4])
  /\ IsAdd(trace[5]) /\ IsAdd(trace[6])
  /\ size = 2 /\ head = <<3>> /\ tail = <<4>>

\* The fields of the queue after the first n calls of the history.
After(n) == Replay(SubSeq(trace, 1, n), NewQ)

\* C16: on an empty queue, also one that was drained, addSeat(x) followed
\* at once by reserveSeat() returns x and leaves head = null, tail = null
\* and size = 0; and from an empty queue on, every call returns what it
\* returns on a newly constructed queue given the same calls.
C16_RoundTripOnEmpty ==
  \A i \in 1..Len(trace) :
    After(i - 1).head = null =>
      /\ After(i - 1).tail = null /\ After(i - 1).size = 0
      /\ (i < Len(trace) /\ IsAdd(trace[i]) /\ IsReserve(trace[i + 1])) =>
           /\ trace[i + 1].ret = trace[i].arg
           /\ After(i + 1).head = null
           /\ After(i + 1).tail = null
           /\ After(i + 1).size = 0
      /\ \A j \in i..Len(trace) :
           Apply(trace[j], Replay(SubSeq(trace, i, j - 1), NewQ)).ret
             = trace[j].ret
      /\ After(Len(trace)) = Q

\* A queue drained after an add, then add and reserve at once, then a
\* count of 0.
C16_Witness ==
  /\ Len(trace) = 6
  /\ IsAdd(trace[1]) /\ IsHandedOut(trace[2])
  /\ IsAdd(trace[3]) /\ IsHandedOut(trace[4])
  /\ trace[3].arg # trace[1].arg
  /\ IsCount(trace[5]) /\ trace[5].ret = <<0>>
  /\ IsReserve(trace[6]) /\ trace[6].ret = null
  /\ head = null /\ tail = null /\ size = 0

\* The indices of the tickets of the input array whose price is within
\* the range, bounds included.
InRange == {i \in 1..Len(tickets) :
              Leq(minPrice, tickets[i].price) /\ Leq(tickets[i].price, maxPrice)}

\* C12: filteredTickets holds exactly the tickets of the input array with
\* minPrice <= price <= maxPrice, in their original order, for the current
\* minPrice and maxPrice.
C12_FilteredExactly ==
  /\ Len(filteredTickets) = Cardinality(InRange)
  /\ \A i \in InRange :
       filteredTickets[Cardinality({j \in InRange : j <= i})] = tickets[i]

\* Both bounds were set and are met exactly: of the prices 10, 30, 50, 30
\* the two tickets at 30 pass, in their order.
C12_Witness ==
  /\ Len(tickets) = 3
  /\ tickets[1].price = Num(10) /\ tickets[2] = [id |-> "4", price |-> Num(30)]
  /\ tickets[3] = [id |-> "2", price |-> Num(30)]
  /\ minPrice = Num(30) /\ maxPrice = Num(30)
  /\ filteredTickets = <<tickets[2], tickets[3]>>

\* C13: the interval is started once per mount and cleared at unmount: a
\* mounted component has exactly one active interval, the one its effect
\* started; an unmounted one has none, so between unmount and the next
\* mount no tick happens and currentDF does not change; and as many
\* intervals were ever started as there were mounts.
C13_IntervalCleanedUp ==
  /\ [](mounted => intervals = {priceUpdateInterval})
  /\ [](~mounted => intervals = {})
  /\ [](nextInterval - 1 = mounts)
  /\ [][ (~mounted /\ ~mounted') =>
           (ticks' = ticks /\ currentDF' = currentDF) ]_priceVars

\* The component was mounted twice and is unmounted again; the interval
\* fired three times while it was mounted.
C13_Witness ==
  /\ ~mounted
  /\ mounts = 2
  /\ ticks = 3
  /\ priceUpdateInterval = 2
  /\ currentDF # demandFactor

\* C14: loading is true from mount until a request settles; the step in
\* which a request settles makes loading false and sets data to the
\* response body on success, error to the failure on rejection; and, every
\* request settling eventually, loading eventually becomes false.
C14_LoadingUntilSettled ==
  /\ [](settled = <<>> => (loading = TRUE /\ data = null /\ error = null))
  /\ [][ Len(settled') > Len(settled) =>
           LET r == settled'[Len(settled')]
           IN  /\ loading' = FALSE
               /\ r.ok => data' = <<Body(r.url)>> /\ error' = error
               /\ ~r.ok => error' = <<Failure(r.url)>> /\ data' = data
       ]_fetchVars
  /\ <>(loading = FALSE)

\* The only request was rejected: loading is false, the error is set and
\* there is no data.
C14_Witness ==
  /\ nextRequest = 2
  /\ inflight = {}
  /\ Len(settled) = 1 /\ ~settled[1].ok
  /\ loading = FALSE
  /\ error = <<Failure(url)>>
  /\ data = null

\* The request started last, the one for the current url.
LatestRequest == nextRequest - 1

\* C17: after a url change, once no request is in flight, data and error
\* are those of the request for the most recent url (its body and no error
\* if it resolved, its failure and no data if it was rejected), whatever
\* the order in which the requests settled; and loading is not false while
\* the request for the most recent url is in flight.
C17_LatestUrlWins ==
  LatestRequest > 1 =>
    /\ inflight = {} =>
         \A i \in 1..Len(settled) :
           settled[i].id = LatestRequest =>
             IF settled[i].ok
             THEN data = <<Body(url)>> /\ error = null
             ELSE error = <<Failure(url)>> /\ data = null
    /\ (\E r \in inflight : r.id = LatestRequest) => loading # FALSE

\* C18: data and error are never both non-null.
C18_DataXorError == ~(data # null /\ error # null)

====
